---- MODULE Spec2Model ----
(***************************************************************************)
(* A model of package wav (src/wav/wav.go): the bulk decoder ReadWav, the  *)
(* streaming constructor StreamWav and the pull operation ReadSamples,     *)
(* with the byte-level helpers they call.  Bytes are the integers 0..255,  *)
(* strings are sequences of bytes, and a Go slice is a record that keeps   *)
(* its length apart from its backing array, so that slicing is checked     *)
(* against the capacity and indexing against the length, as Go does.       *)
(***************************************************************************)
EXTENDS Integers, Sequences, FiniteSets, TLC

(***************************************************************************)
(* Bounds of the model.                                                    *)
(***************************************************************************)
\* Largest channel count of a generated header.
MaxChannels == 2
\* Largest number of frames in a generated container's payload.
MaxFrames == 2
\* Longest raw byte string (short buffers and sample streams).
MaxShortLen == 4
\* Largest spare capacity left behind the bytes ioutil.ReadAll returns.
MaxSlack == 2
\* Largest batch size asked of ReadSamples.
MaxBatch == 2
\* Largest BlockAlign of a directly constructed streaming container.
MaxAlign == 4

(***************************************************************************)
(* Constants of the program.                                               *)
(***************************************************************************)
RIFFMarkerOffset == 0
WAVEMarkerOffset == 8
FMTMarkerOffset == 12
AudioFormatOffset == 20
NumChannelsOffset == 22
SampleRateOffset == 24
ByteRateOffset == 28
BlockAlignOffset == 32
BitsPerSampleOffset == 34

\* The four marker strings, as bytes: "RIFF", "WAVE", "fmt ", "data".
RIFF == <<82, 73, 70, 70>>
WAVE == <<87, 65, 86, 69>>
FMT == <<102, 109, 116, 32>>
DATA == <<100, 97, 116, 97>>

\* Error values.  NoErr is Go's nil error; Panic stands for a run-time panic
\* (index or slice out of range, integer division by zero, nil dereference),
\* which is not an error value but the abnormal end of the call.
NoErr == "nil"
Panic == "panic"
ErrInvalidReader == "wav: Invalid Reader"
ErrNotFound == "data header not found"
ErrRIFF == "wav: Header does not contain 'RIFF'"
ErrWAVE == "wav: Header does not contain 'WAVE'"
ErrFmt == "wav: Header does not contain 'fmt'"
ErrData == "wav: Header does not contain 'data'"
ErrMisaligned == "wav: Read an invalid amount of data"
\* Errors of the underlying reader: io.EOF and any other read failure.
EOF == "EOF"
ErrIO == "io: read failed"

(***************************************************************************)
(* Go slices.  mem is the backing array from the slice's first element to  *)
(* the end of its capacity; len is the slice's length.                     *)
(***************************************************************************)
Zeros(n) == [i \in 1..n |-> 0]

\* The slice ioutil.ReadAll returns: the content, with spare zeroed capacity.
ReadAllSlice(content, spare) == [len |-> Len(content), mem |-> content \o Zeros(spare)]

Cap(s) == Len(s.mem)

\* s[lo:hi] is legal iff 0 <= lo <= hi <= cap(s); it panics otherwise.
CanSlice(s, lo, hi) == 0 <= lo /\ lo <= hi /\ hi <= Cap(s)

SliceOf(s, lo, hi) == [len |-> hi - lo, mem |-> SubSeq(s.mem, lo + 1, Cap(s))]

\* string(s): the bytes within the length.
Str(s) == SubSeq(s.mem, 1, s.len)

\* s[idx] is legal iff 0 <= idx < len(s); it panics otherwise.
InBounds(s, idx) == 0 <= idx /\ idx < s.len

At(s, idx) == s.mem[idx + 1]

(***************************************************************************)
(* strings.Contains and strings.Index.                                     *)
(***************************************************************************)
MatchAt(s, sub, i) == SubSeq(s, i, i + Len(sub) - 1) = sub

Contains(s, sub) == \E i \in 1..(Len(s) - Len(sub) + 1) : MatchAt(s, sub, i)

Index(s, sub) ==
    IF Contains(s, sub)
    THEN (CHOOSE i \in 1..(Len(s) - Len(sub) + 1) :
             MatchAt(s, sub, i) /\ \A j \in 1..(i - 1) : ~MatchAt(s, sub, j)) - 1
    ELSE -1

(***************************************************************************)
(* Byte-level codec.                                                       *)
(***************************************************************************)
\* Conversion to int16: keep the low 16 bits, two's complement.
Int16(x) == LET m == x % 65536 IN IF m >= 32768 THEN m - 65536 ELSE m

bLEtoUint32(b, idx) ==
    At(b, idx + 3) * 16777216 + At(b, idx + 2) * 65536 + At(b, idx + 1) * 256 + At(b, idx)

bLEtoUint16(b, idx) == (At(b, idx + 1) * 256 + At(b, idx)) % 65536

bLEtoInt16(b, idx) == Int16(Int16(At(b, idx + 1) * 256) + At(b, idx))

(***************************************************************************)
(* Marker locator (bulk mode).                                             *)
(***************************************************************************)
getDataMarkerOffsetNoCheck(filedata) ==
    IF ~Contains(Str(filedata), DATA) THEN 0 ELSE Index(Str(filedata), DATA)

getDataMarkerOffset(filedata) ==
    IF ~Contains(Str(filedata), DATA) THEN -1 ELSE Index(Str(filedata), DATA)

(***************************************************************************)
(* Header model and validator.                                             *)
(***************************************************************************)
\* new(Wav) / new(StreamedWav): every header field zero.
ZeroHeader ==
    [AudioFormat |-> 0, NumChannels |-> 0, SampleRate |-> 0, ByteRate |-> 0,
     BlockAlign |-> 0, BitsPerSample |-> 0, ChunkSize |-> 0, NumSamples |-> 0,
     DataMarkerOffset |-> 0]

checkHeaderNoData(header, datamarkeroffset) ==
    IF ~CanSlice(header, 0, 4) THEN Panic
    ELSE IF Str(SliceOf(header, 0, 4)) # RIFF THEN ErrRIFF
    ELSE IF ~CanSlice(header, 8, 12) THEN Panic
    ELSE IF Str(SliceOf(header, 8, 12)) # WAVE THEN ErrWAVE
    ELSE IF ~CanSlice(header, 12, 16) THEN Panic
    ELSE IF Str(SliceOf(header, 12, 16)) # FMT THEN ErrFmt
    ELSE NoErr

checkHeader(header, datamarkeroffset) ==
    IF ~CanSlice(header, 0, 4) THEN Panic
    ELSE IF Str(SliceOf(header, 0, 4)) # RIFF THEN ErrRIFF
    ELSE IF ~CanSlice(header, 8, 12) THEN Panic
    ELSE IF Str(SliceOf(header, 8, 12)) # WAVE THEN ErrWAVE
    ELSE IF ~CanSlice(header, 12, 16) THEN Panic
    ELSE IF Str(SliceOf(header, 12, 16)) # FMT THEN ErrFmt
    ELSE IF ~CanSlice(header, datamarkeroffset, datamarkeroffset + 4) THEN Panic
    ELSE IF Str(SliceOf(header, datamarkeroffset, datamarkeroffset + 4)) # DATA THEN ErrData
    ELSE NoErr

\* The header fields can be read iff every byte they index lies within len.
FieldsInBounds(header, off) ==
    /\ InBounds(header, AudioFormatOffset + 1)
    /\ InBounds(header, NumChannelsOffset + 1)
    /\ InBounds(header, SampleRateOffset + 3)
    /\ InBounds(header, ByteRateOffset + 3)
    /\ InBounds(header, BlockAlignOffset + 1)
    /\ InBounds(header, BitsPerSampleOffset + 1)
    /\ InBounds(header, off + 4) /\ InBounds(header, off + 7)

\* int(wavHeader.ChunkSize) / int(wavHeader.BlockAlign), BlockAlign nonzero.
frameCountHalved(chunkSize, blockAlign) == chunkSize \div 2

frameCount(chunkSize, blockAlign) == chunkSize \div blockAlign

\* wavHeader.setupWithHeaderData(header), with wavHeader.DataMarkerOffset = off.
\* The result is the error (or Panic) and the header as the call leaves it.
setupWithHeaderData(header, off) ==
    LET e == checkHeader(header, off)
        h0 == [ZeroHeader EXCEPT !.DataMarkerOffset = off]
    IN  IF e # NoErr THEN [err |-> e, hdr |-> h0]
        ELSE IF ~FieldsInBounds(header, off) THEN [err |-> Panic, hdr |-> h0]
        ELSE IF bLEtoUint16(header, BlockAlignOffset) = 0 THEN [err |-> Panic, hdr |-> h0]
        ELSE [err |-> NoErr,
              hdr |-> [AudioFormat |-> bLEtoUint16(header, AudioFormatOffset),
                       NumChannels |-> bLEtoUint16(header, NumChannelsOffset),
                       SampleRate |-> bLEtoUint32(header, SampleRateOffset),
                       ByteRate |-> bLEtoUint32(header, ByteRateOffset),
                       BlockAlign |-> bLEtoUint16(header, BlockAlignOffset),
                       BitsPerSample |-> bLEtoUint16(header, BitsPerSampleOffset),
                       ChunkSize |-> bLEtoUint32(header, off + 4),
                       NumSamples |-> frameCount(bLEtoUint32(header, off + 4),
                                                 bLEtoUint16(header, BlockAlignOffset)),
                       DataMarkerOffset |-> off]]

(***************************************************************************)
(* Per-frame decode.                                                       *)
(***************************************************************************)
\* The byte offset readSampleFromData uses for channel channelIdx of frame
\* sampleIndex.
sampleOffset(sampleIndex, channelIdx, header) ==
    IF header.BitsPerSample = 8
    THEN sampleIndex * header.NumChannels + channelIdx
    ELSE 2 * sampleIndex * header.NumChannels + channelIdx

\* One channel slot may be read without a panic.
slotInBounds(data, sampleIndex, channelIdx, header) ==
    IF header.BitsPerSample = 8
    THEN InBounds(data, sampleOffset(sampleIndex, channelIdx, header))
    ELSE IF header.BitsPerSample = 16
    THEN /\ InBounds(data, sampleOffset(sampleIndex, channelIdx, header))
         /\ InBounds(data, sampleOffset(sampleIndex, channelIdx, header) + 1)
    ELSE TRUE

slotValue(data, sampleIndex, channelIdx, header) ==
    IF header.BitsPerSample = 8
    THEN At(data, sampleOffset(sampleIndex, channelIdx, header))
    ELSE IF header.BitsPerSample = 16
    THEN bLEtoInt16(data, sampleOffset(sampleIndex, channelIdx, header))
    ELSE 0

\* readSampleFromData: the frame [ch0, ch1, ...], or a panic.
readSampleFromData(data, sampleIndex, header) ==
    IF \A ch \in 0..(header.NumChannels - 1) : slotInBounds(data, sampleIndex, ch, header)
    THEN [panic |-> FALSE,
          sample |-> [k \in 1..header.NumChannels |->
                         slotValue(data, sampleIndex, k - 1, header)]]
    ELSE [panic |-> TRUE, sample |-> <<>>]

(***************************************************************************)
(* Bulk decoder.                                                           *)
(***************************************************************************)
NilWav == [isNil |-> TRUE]

\* The frames of the payload, each as readSampleFromData returns it.
decodedFrames(data, header) ==
    [i \in 1..header.NumSamples |-> readSampleFromData(data, i - 1, header)]

\* wav.Data as ReadWav leaves it when no read panics: make([][]int, NumSamples),
\* whose entries are assigned only in the 8-bit and the 16-bit branch and are
\* nil slices (length 0) otherwise.
genericDataZeroFilled(data, header) ==
    [i \in 1..header.NumSamples |-> readSampleFromData(data, i - 1, header).sample]

genericData(data, header) ==
    IF header.BitsPerSample = 8 \/ header.BitsPerSample = 16
    THEN [i \in 1..header.NumSamples |-> decodedFrames(data, header)[i].sample]
    ELSE [i \in 1..header.NumSamples |-> <<>>]

\* The reads of the decode loops panic.
decodePanics(data, header) ==
    /\ header.BitsPerSample = 8 \/ header.BitsPerSample = 16
    /\ \E i \in 1..header.NumSamples : decodedFrames(data, header)[i].panic

\* wav.Data8: nil unless BitsPerSample is 8; uint8 of each value.
data8(data, header) ==
    IF header.BitsPerSample = 8
    THEN [i \in 1..header.NumSamples |->
             [k \in 1..header.NumChannels |-> genericData(data, header)[i][k] % 256]]
    ELSE <<>>

\* wav.Data16: nil unless BitsPerSample is 16; int16 of each value.
data16(data, header) ==
    IF header.BitsPerSample = 16
    THEN [i \in 1..header.NumSamples |->
             [k \in 1..header.NumChannels |-> Int16(genericData(data, header)[i][k])]]
    ELSE <<>>

\* ReadWav(r) for a reader r of kind "nil" (no reader), "ioerr" (every read
\* fails) or "ok" (yields content, which ReadAll returns with spare capacity).
ReadWav(r, content, spare) ==
    IF r = "nil" THEN [err |-> ErrInvalidReader, wav |-> NilWav]
    ELSE IF r = "ioerr" THEN [err |-> ErrIO, wav |-> NilWav]
    ELSE LET bytes == ReadAllSlice(content, spare)
             dataMarkerOffset == getDataMarkerOffset(bytes)
         IN  IF dataMarkerOffset = -1 THEN [err |-> ErrNotFound, wav |-> NilWav]
             ELSE LET s == setupWithHeaderData(bytes, dataMarkerOffset)
                      h == s.hdr
                      lo == dataMarkerOffset + 8
                      hi == h.ChunkSize + dataMarkerOffset + 8
                  IN  IF s.err # NoErr THEN [err |-> s.err, wav |-> NilWav]
                      ELSE IF ~CanSlice(bytes, lo, hi) THEN [err |-> Panic, wav |-> NilWav]
                      ELSE IF decodePanics(SliceOf(bytes, lo, hi), h)
                      THEN [err |-> Panic, wav |-> NilWav]
                      ELSE [err |-> NoErr,
                            wav |-> [isNil |-> FALSE,
                                     hdr |-> h,
                                     Data8 |-> data8(SliceOf(bytes, lo, hi), h),
                                     Data16 |-> data16(SliceOf(bytes, lo, hi), h),
                                     Data |-> genericData(SliceOf(bytes, lo, hi), h)]]

(***************************************************************************)
(* The underlying reader.                                                  *)
(***************************************************************************)
Min(a, b) == IF a <= b THEN a ELSE b

\* The outcomes of one Read(p), len(p) = plen, by a reader of kind r over
\* content with pos bytes already consumed: a failing reader fails; at the end
\* of the stream the read returns 0, EOF; a read into an empty p returns 0, nil;
\* otherwise it returns between 1 and plen of the bytes that remain.
readOutcomes(r, content, pos, plen) ==
    IF r = "ioerr" THEN {[n |-> 0, err |-> ErrIO]}
    ELSE IF Len(content) - pos = 0 THEN {[n |-> 0, err |-> EOF]}
    ELSE IF plen = 0 THEN {[n |-> 0, err |-> NoErr]}
    ELSE {[n |-> k, err |-> NoErr] : k \in 1..Min(plen, Len(content) - pos)}

(***************************************************************************)
(* Streaming decoder.                                                      *)
(***************************************************************************)
\* The scan loop of StreamWav: the number of bytes consumed when the bytes
\* read so far contain "data", or when a single-byte read fails.
RECURSIVE scanForData(_, _, _)
scanForData(r, content, headerdataoffset) ==
    IF Contains(SubSeq(content, 1, headerdataoffset), DATA) THEN headerdataoffset
    ELSE IF r = "ioerr" \/ headerdataoffset = Len(content) THEN headerdataoffset
    ELSE scanForData(r, content, headerdataoffset + 1)

\* header after reader.Read(header) returned n bytes read at offset k.
headerBlock(content, k, n) ==
    [len |-> k + 8, mem |-> SubSeq(content, k + 1, k + n) \o Zeros(k + 8 - n)]

\* StreamWav(reader), where o is the outcome of the one Read of the header
\* block.  pos is the reader's position when the call ends.
StreamWav(r, content, o) ==
    IF r = "nil" THEN [err |-> ErrInvalidReader, isNil |-> TRUE, hdr |-> ZeroHeader, pos |-> 0]
    ELSE LET k == scanForData(r, content, 0)
             s == setupWithHeaderData(headerBlock(content, k, o.n), 0)
         IN  IF o.err # NoErr
             THEN [err |-> o.err, isNil |-> TRUE, hdr |-> ZeroHeader, pos |-> k + o.n]
             ELSE IF s.err # NoErr
             THEN [err |-> s.err, isNil |-> TRUE, hdr |-> ZeroHeader, pos |-> k + o.n]
             ELSE [err |-> NoErr, isNil |-> FALSE, hdr |-> s.hdr, pos |-> k + o.n]

\* data after wav.Reader.Read(data) put chunk at its start.
sampleBlock(header, numSamples, chunk) ==
    [len |-> numSamples * header.BlockAlign,
     mem |-> chunk \o Zeros(numSamples * header.BlockAlign - Len(chunk))]

\* The frames ReadSamples decodes from data.
batchFrames(data, count, header) ==
    [i \in 1..count |-> readSampleFromData(data, i - 1, header)]

\* ReadSamples(numSamples) on a container with the given header, where the
\* underlying read returned the bytes chunk and the error rerr.  make panics
\* on a negative length, before anything is read.
ReadSamplesWholeBatch(header, numSamples, chunk, rerr) ==
    IF numSamples * header.BlockAlign < 0 THEN [err |-> Panic, samples |-> <<>>]
    ELSE IF rerr # NoErr THEN [err |-> rerr, samples |-> <<>>]
    ELSE IF header.BlockAlign = 0 THEN [err |-> Panic, samples |-> <<>>]
    ELSE IF Len(chunk) % header.BlockAlign # 0 THEN [err |-> ErrMisaligned, samples |-> <<>>]
    ELSE LET f == batchFrames(sampleBlock(header, numSamples, chunk), numSamples, header)
         IN  IF \E i \in 1..numSamples : f[i].panic
             THEN [err |-> Panic, samples |-> <<>>]
             ELSE [err |-> NoErr, samples |-> [i \in 1..numSamples |-> f[i].sample]]

ReadSamples(header, numSamples, chunk, rerr) ==
    IF numSamples * header.BlockAlign < 0 THEN [err |-> Panic, samples |-> <<>>]
    ELSE IF rerr # NoErr THEN [err |-> rerr, samples |-> <<>>]
    ELSE IF header.BlockAlign = 0 THEN [err |-> Panic, samples |-> <<>>]
    ELSE IF Len(chunk) % header.BlockAlign # 0 THEN [err |-> ErrMisaligned, samples |-> <<>>]
    ELSE LET numberOfSamplesRead == Len(chunk) \div header.BlockAlign
             f == batchFrames(sampleBlock(header, numSamples, chunk),
                              numberOfSamplesRead, header)
         IN  IF \E i \in 1..numberOfSamplesRead : f[i].panic
             THEN [err |-> Panic, samples |-> <<>>]
             ELSE [err |-> NoErr,
                   samples |-> [i \in 1..numberOfSamplesRead |-> f[i].sample]]

(***************************************************************************)
(* The inputs: byte strings handed to the decoders.  Containers are laid   *)
(* out as the RIFF/WAVE format lays them out (RIFF, size, WAVE, "fmt ",    *)
(* the format body, "data", the chunk size, the payload), then damaged in  *)
(* one way at a time; short raw strings stand for arbitrary bytes and for  *)
(* the sample streams of the streaming decoder.                            *)
(***************************************************************************)
U16LE(v) == <<v % 256, (v \div 256) % 256>>

U32LE(v) == <<v % 256, (v \div 256) % 256, (v \div 65536) % 256, (v \div 16777216) % 256>>

\* The 32-bit little-endian number whose four bytes spell "data".
DataAsUint32 == DATA[1] + DATA[2] * 256 + DATA[3] * 65536 + DATA[4] * 16777216

BitDepths == {8, 16, 24}

PayloadSeeds == {100, 200}

\* Payload bytes that differ from place to place, with the top bit set in some.
Payload(seed, n) == [j \in 1..n |-> (seed + 57 * (j - 1)) % 256]

\* A container from its fields f; an odd payload is followed by a pad byte.
Container(f) ==
    LET pad == IF Len(f.payload) % 2 = 1 THEN <<0>> ELSE <<>>
        tail == f.wave \o f.fmt \o U32LE(f.fmtSize) \o U16LE(1) \o U16LE(f.channels)
                \o U32LE(f.rate) \o U32LE(f.rate * f.align0) \o U16LE(f.align)
                \o U16LE(f.bits) \o Zeros(f.fmtSize - 16)
                \o f.data \o U32LE(f.chunk) \o f.payload \o pad
    IN  f.riff \o (IF f.riffData THEN DATA ELSE U32LE(4 + Len(tail) - 4)) \o tail

ContainerParams ==
    [channels : 1..MaxChannels, bits : BitDepths, frames : 0..MaxFrames,
     seed : PayloadSeeds, rate : {"cd", "spelled"}, fmtSize : {16, 18}]

MarkerNames == {"RIFF", "WAVE", "fmt ", "data"}

Damages ==
    {[kind |-> k, bad |-> {}, len |-> 0] :
        k \in {"none", "align0", "align1", "chunkPlus", "chunkHuge", "riffData",
               "prefix", "dropLast"}}
    \cup {[kind |-> "trunc", bad |-> {}, len |-> n] : n \in {16, 30, 40}}
    \cup {[kind |-> "none", bad |-> S, len |-> 0] : S \in (SUBSET MarkerNames) \ {{}}}

Spoilt == <<88, 88, 88, 88>>

\* The fields of the container of parameters p with damage d.  Undamaged, the
\* block alignment is channels times bytes per sample, the byte rate is the
\* sample rate times the block alignment and the chunk size is the payload's
\* length; the "spelled" sample rate makes the byte rate spell "data".
Fields(p, d) ==
    LET align0 == p.channels * (p.bits \div 8)
        n == p.frames * align0
    IN  [riff |-> IF "RIFF" \in d.bad THEN Spoilt ELSE RIFF,
         wave |-> IF "WAVE" \in d.bad THEN Spoilt ELSE WAVE,
         fmt |-> IF "fmt " \in d.bad THEN Spoilt ELSE FMT,
         data |-> IF "data" \in d.bad THEN Spoilt ELSE DATA,
         riffData |-> d.kind = "riffData",
         fmtSize |-> p.fmtSize,
         channels |-> p.channels,
         bits |-> p.bits,
         rate |-> IF p.rate = "spelled" /\ DataAsUint32 % align0 = 0
                  THEN DataAsUint32 \div align0 ELSE 44100,
         align0 |-> align0,
         align |-> IF d.kind = "align0" THEN 0 ELSE IF d.kind = "align1" THEN 1 ELSE align0,
         chunk |-> IF d.kind = "chunkPlus" THEN n + 1
                   ELSE IF d.kind = "chunkHuge" THEN n + 1000 ELSE n,
         payload |-> Payload(p.seed, n)]

Build(p, d) ==
    LET c == Container(Fields(p, d))
    IN  IF d.kind = "prefix" THEN Zeros(24) \o DATA \o c
        ELSE IF d.kind = "trunc" THEN SubSeq(c, 1, Min(d.len, Len(c)))
        ELSE IF d.kind = "dropLast" THEN SubSeq(c, 1, Len(c) - 1)
        ELSE c

\* The scenario of the specification: mono, 16 bits, 44100 Hz, samples 100, -100.
Scenario ==
    Container([riff |-> RIFF, wave |-> WAVE, fmt |-> FMT, data |-> DATA,
               riffData |-> FALSE, fmtSize |-> 16, channels |-> 1, bits |-> 16,
               rate |-> 44100, align0 |-> 2, align |-> 2, chunk |-> 4,
               payload |-> <<100, 0, 156, 255>>])

Alphabet == {97, 100, 116}

ShortBuffers == UNION {[1..n -> Alphabet] : n \in 0..MaxShortLen}

InputBuffers ==
    {Build(p, d) : p \in ContainerParams, d \in Damages} \cup ShortBuffers \cup {Scenario}

\* The headers of streaming containers built directly as StreamedWav values.
StreamHeaders ==
    {[ZeroHeader EXCEPT !.NumChannels = c, !.BitsPerSample = b, !.BlockAlign = a] :
        c \in 1..MaxChannels, b \in BitDepths, a \in 0..MaxAlign}

(***************************************************************************)
(* The state machine: one reader, handed to one of the three entry points. *)
(***************************************************************************)
VARIABLES
    rdr,      \* the reader's kind: "ok", "nil" or "ioerr"
    input,    \* the bytes the reader yields
    phase,    \* "start", "read", "streamed" or "streaming"
    slack,    \* the spare capacity ReadAll left
    rw,       \* what ReadWav returned
    sw,       \* what StreamWav returned
    swav,     \* the streaming container's header
    pos,      \* the reader's position
    last,     \* the last ReadSamples call and what it returned
    got       \* the frames returned so far, in call order

vars == <<rdr, input, phase, slack, rw, sw, swav, pos, last, got>>

NotCalled == "not called"

NoCall == [numSamples |-> 0, chunk |-> <<>>, rerr |-> NoErr, err |-> NotCalled, samples |-> <<>>]

Init ==
    /\ rdr \in {"ok", "nil", "ioerr"}
    /\ input \in InputBuffers
    /\ rdr # "ok" => input = <<>>
    /\ phase = "start"
    /\ slack = 0
    /\ rw = [err |-> NotCalled, wav |-> NilWav]
    /\ sw = [err |-> NotCalled, isNil |-> TRUE, hdr |-> ZeroHeader, pos |-> 0]
    /\ swav = ZeroHeader
    /\ pos = 0
    /\ last = NoCall
    /\ got = <<>>

\* ReadWav(r): ReadAll consumes the reader and leaves some spare capacity.
ReadWavAct ==
    /\ phase = "start"
    /\ \E spare \in {0, MaxSlack} :
          /\ slack' = spare
          /\ rw' = ReadWav(rdr, input, spare)
    /\ phase' = "read"
    /\ pos' = IF rdr = "ok" THEN Len(input) ELSE pos
    /\ UNCHANGED <<rdr, input, sw, swav, last, got>>

\* StreamWav(reader): the scan, then one read of the header block.
StreamWavAct ==
    /\ phase = "start"
    /\ \E o \in (IF rdr = "nil" THEN {[n |-> 0, err |-> NoErr]}
                 ELSE readOutcomes(rdr, input, scanForData(rdr, input, 0),
                                   scanForData(rdr, input, 0) + 8)) :
          /\ sw' = StreamWav(rdr, input, o)
          /\ phase' = IF sw'.isNil THEN "streamed" ELSE "streaming"
          /\ swav' = sw'.hdr
          /\ pos' = sw'.pos
    /\ UNCHANGED <<rdr, input, slack, rw, last, got>>

\* A caller builds the StreamedWav value itself, over a short sample stream.
NewStreamedWav(h) ==
    /\ phase = "start"
    /\ Len(input) <= MaxShortLen
    /\ swav' = h
    /\ phase' = "streaming"
    /\ UNCHANGED <<rdr, input, slack, rw, sw, pos, last, got>>

\* wav.ReadSamples(numSamples); no call follows one that failed.  A negative
\* length and a nil reader end the call in a panic.
ReadSamplesAct(numSamples) ==
    /\ phase = "streaming"
    /\ last.err \in {NotCalled, NoErr}
    /\ IF rdr = "nil" \/ numSamples * swav.BlockAlign < 0
       THEN /\ last' = [numSamples |-> numSamples, chunk |-> <<>>, rerr |-> NoErr,
                        err |-> Panic, samples |-> <<>>]
            /\ UNCHANGED <<pos, got>>
       ELSE \E o \in readOutcomes(rdr, input, pos, numSamples * swav.BlockAlign) :
               LET chunk == SubSeq(input, pos + 1, pos + o.n)
                   r == ReadSamples(swav, numSamples, chunk, o.err)
               IN  /\ last' = [numSamples |-> numSamples, chunk |-> chunk,
                               rerr |-> o.err, err |-> r.err, samples |-> r.samples]
                   /\ pos' = pos + o.n
                   /\ got' = got \o r.samples
    /\ UNCHANGED <<rdr, input, phase, slack, rw, sw, swav>>

Next ==
    \/ ReadWavAct
    \/ StreamWavAct
    \/ \E h \in StreamHeaders : NewStreamedWav(h)
    \/ \E n \in (-1)..MaxBatch : ReadSamplesAct(n)

Spec == Init /\ [][Next]_vars

(***************************************************************************)
(* The container as its layout defines it, read without the decoder: what  *)
(* the properties below compare the decoder's results with.                *)
(***************************************************************************)
HasAt(b, off, m) == off + Len(m) <= Len(b) /\ \A k \in 1..Len(m) : b[off + k] = m[k]

U16In(b, off) == IF off + 2 <= Len(b) THEN b[off + 1] + b[off + 2] * 256 ELSE -1

U32In(b, off) ==
    IF off + 4 <= Len(b)
    THEN b[off + 1] + b[off + 2] * 256 + b[off + 3] * 65536 + b[off + 4] * 16777216
    ELSE -1

NoDataIn(b) == \A i \in 0..(Len(b) - 4) : ~HasAt(b, i, DATA)

FirstData(b) ==
    CHOOSE i \in 0..(Len(b) - 4) : HasAt(b, i, DATA) /\ \A j \in 0..(i - 1) : ~HasAt(b, j, DATA)

\* Where the data sub-chunk starts when it follows the format sub-chunk.
DataChunkOffset(b) == 20 + U32In(b, 16)

\* A well-formed container in the standard order: RIFF, the size of what
\* follows, WAVE, the format sub-chunk (PCM, body of 16 or 18 bytes, block
\* alignment and byte rate as the format defines them), the data sub-chunk,
\* its payload fully present with its pad byte, and nothing else.
WellFormedStd(b) ==
    /\ Len(b) >= 44
    /\ HasAt(b, 0, RIFF) /\ U32In(b, 4) = Len(b) - 8
    /\ HasAt(b, 8, WAVE) /\ HasAt(b, 12, FMT)
    /\ U32In(b, 16) \in {16, 18}
    /\ HasAt(b, DataChunkOffset(b), DATA)
    /\ Len(b) >= DataChunkOffset(b) + 8
    /\ U16In(b, 20) = 1
    /\ U16In(b, 22) >= 1
    /\ U16In(b, 34) > 0 /\ U16In(b, 34) % 8 = 0
    /\ U16In(b, 32) = U16In(b, 22) * (U16In(b, 34) \div 8)
    /\ U32In(b, 28) = U32In(b, 24) * U16In(b, 32)
    /\ Len(b) = DataChunkOffset(b) + 8 + U32In(b, DataChunkOffset(b) + 4)
                   + (U32In(b, DataChunkOffset(b) + 4) % 2)

\* ReadWav was called on a reader that yields the bytes of input.
BulkDecoded == phase = "read" /\ rdr = "ok"

(***************************************************************************)
(* C1                                                                      *)
(***************************************************************************)
\* What C1 promises of the decode of a container b.
C1_Decoded(b) ==
    /\ rw.err = NoErr
    /\ ~rw.wav.isNil
    /\ rw.wav.hdr.NumSamples = U32In(b, DataChunkOffset(b) + 4) \div U16In(b, 32)
    /\ Len(rw.wav.Data) = rw.wav.hdr.NumSamples
    /\ \A i \in 1..Len(rw.wav.Data) : Len(rw.wav.Data[i]) = U16In(b, 22)

PayloadByteAt(j) ==
    LET k == rw.wav.hdr.DataMarkerOffset + 8 + j + 1
    IN  IF k <= Len(input) THEN input[k] ELSE 0

SignedLE(lo, hi) == IF hi >= 128 THEN hi * 256 + lo - 65536 ELSE hi * 256 + lo

\* The value the per-frame decode rule gives channel c of frame i.
RuleValue(i, c) ==
    IF rw.wav.hdr.BitsPerSample = 8
    THEN PayloadByteAt(i * rw.wav.hdr.NumChannels + c)
    ELSE SignedLE(PayloadByteAt(2 * (i * rw.wav.hdr.NumChannels + c)),
                  PayloadByteAt(2 * (i * rw.wav.hdr.NumChannels + c) + 1))

\* C2: every slot of every decoded frame holds the value the per-frame decode
\* rule gives it: the byte at i*C + c at 8 bits, the signed little-endian pair
\* at 2*(i*C + c) at 16 bits, for every channel count.
C2_PerFrameRule ==
    (/\ BulkDecoded
     /\ rw.err = NoErr
     /\ rw.wav.hdr.BitsPerSample \in {8, 16}) =>
        \A i \in 1..Len(rw.wav.Data) : \A c \in 1..rw.wav.hdr.NumChannels :
            rw.wav.Data[i][c] = RuleValue(i - 1, c - 1)

(***************************************************************************)
(* C3                                                                      *)
(***************************************************************************)
\* C3: on a buffer that does not contain "data", ReadWav returns no container
\* and the not-found error, whatever else the buffer holds.
C3_NotFound ==
    (BulkDecoded /\ NoDataIn(input)) => rw = [err |-> ErrNotFound, wav |-> NilWav]

\* ReadWav has reported not-found on a container-sized buffer that lacks
\* "RIFF" as well as "data": no header marker was validated first.
C3_Witness ==
    /\ BulkDecoded
    /\ Len(input) >= 44
    /\ NoDataIn(input)
    /\ ~HasAt(input, 0, RIFF)
    /\ rw.err = ErrNotFound

(***************************************************************************)
(* C4                                                                      *)
(***************************************************************************)
\* C4: ReadWav ends either with no container and an error, or with no error
\* and a container whose NumSamples frames all hold NumChannels values; it
\* never ends abnormally.
C4_AllOrNothing ==
    phase = "read" =>
        \/ rw.wav.isNil /\ rw.err \notin {NoErr, Panic}
        \/ /\ ~rw.wav.isNil
           /\ rw.err = NoErr
           /\ Len(rw.wav.Data) = rw.wav.hdr.NumSamples
           /\ \A i \in 1..Len(rw.wav.Data) :
                 Len(rw.wav.Data[i]) = rw.wav.hdr.NumChannels

(***************************************************************************)
(* C5                                                                      *)
(***************************************************************************)
\* ReadSamples was called and its underlying read took place.
PullDone ==
    /\ phase = "streaming"
    /\ last.err # NotCalled
    /\ rdr # "nil"
    /\ last.numSamples >= 0

\* The frames returned are decoded from the bytes read and from nothing else:
\* decoding the bytes read alone gives the same frames.
FromBytesRead ==
    \A i \in 1..Len(last.samples) :
        LET f == readSampleFromData([len |-> Len(last.chunk), mem |-> last.chunk],
                                    i - 1, swav)
        IN  ~f.panic /\ f.sample = last.samples[i]

\* What C5 promises of a call whose read returned last.chunk and last.rerr.
C5_Outcome ==
    IF last.rerr # NoErr
    THEN last.err = last.rerr /\ last.samples = <<>>
    ELSE IF Len(last.chunk) % swav.BlockAlign # 0
    THEN last.err = ErrMisaligned /\ last.samples = <<>>
    ELSE /\ last.err = NoErr
         /\ Len(last.samples) = Len(last.chunk) \div swav.BlockAlign
         /\ \A i \in 1..Len(last.samples) : Len(last.samples[i]) = swav.NumChannels
         /\ FromBytesRead

AlignedHeader(h) ==
    h.BlockAlign > 0 /\ h.BlockAlign = h.NumChannels * (h.BitsPerSample \div 8)

C6_AlignedStream ==
    (/\ phase = "streaming"
     /\ rdr = "ok"
     /\ sw.err = NotCalled
     /\ AlignedHeader(swav)
     /\ swav.BitsPerSample \in {8, 16}
     /\ Len(input) % swav.BlockAlign = 0) =>
        /\ last.err # ErrMisaligned
        /\ last.err = EOF => Len(got) = Len(input) \div swav.BlockAlign

(***************************************************************************)
(* C7                                                                      *)
(***************************************************************************)
\* StreamWav was called on a reader that yields the bytes of input.
StreamOpened == sw.err # NotCalled /\ rdr = "ok"

\* C7: on a stream that ends without containing "data", StreamWav returns no
\* container and the not-found error.
C7_StreamNotFound ==
    (StreamOpened /\ NoDataIn(input)) => (sw.isNil /\ sw.err = ErrNotFound)

(***************************************************************************)
(* C8                                                                      *)
(***************************************************************************)
\* The header fields are those laid out at offsets 20, 22, 24, 28, 32, 34 and
\* the chunk size is the one at the marker offset + 4.
FieldsAsLaidOut(h, b, off) ==
    /\ h.DataMarkerOffset = off
    /\ h.AudioFormat = U16In(b, AudioFormatOffset)
    /\ h.NumChannels = U16In(b, NumChannelsOffset)
    /\ h.SampleRate = U32In(b, SampleRateOffset)
    /\ h.ByteRate = U32In(b, ByteRateOffset)
    /\ h.BlockAlign = U16In(b, BlockAlignOffset)
    /\ h.BitsPerSample = U16In(b, BitsPerSampleOffset)
    /\ h.ChunkSize = U32In(b, off + 4)

\* C8: on a buffer of at least 16 bytes that contains "data", ReadWav fails
\* with the error naming the first of "RIFF", "WAVE", "fmt " that mismatches
\* and returns no container; when the markers match (the one at the first
\* occurrence of "data" always does) the header fields are decoded from their
\* offsets: they are in the container returned, or the call ends abnormally
\* only after them (the division by BlockAlign, the payload slice, the decode).
C8_ValidationOrder ==
    (BulkDecoded /\ Len(input) >= 16 /\ ~NoDataIn(input)) =>
        IF ~HasAt(input, RIFFMarkerOffset, RIFF) THEN rw = [err |-> ErrRIFF, wav |-> NilWav]
        ELSE IF ~HasAt(input, WAVEMarkerOffset, WAVE) THEN rw = [err |-> ErrWAVE, wav |-> NilWav]
        ELSE IF ~HasAt(input, FMTMarkerOffset, FMT) THEN rw = [err |-> ErrFmt, wav |-> NilWav]
        ELSE \/ ~rw.wav.isNil /\ FieldsAsLaidOut(rw.wav.hdr, input, FirstData(input))
             \/ /\ rw.wav.isNil
                /\ rw.err = Panic
                /\ Len(input) >= BitsPerSampleOffset + 2
                /\ Len(input) >= FirstData(input) + 8

(***************************************************************************)
(* C9                                                                      *)
(***************************************************************************)
\* The four markers validate and the declared bit depth is neither 8 nor 16.
UnsupportedDepth ==
    /\ BulkDecoded
    /\ HasAt(input, 0, RIFF) /\ HasAt(input, 8, WAVE) /\ HasAt(input, 12, FMT)
    /\ ~NoDataIn(input)
    /\ U16In(input, 34) >= 0
    /\ U16In(input, 34) \notin {8, 16}

====
